---- MODULE Spec2Model ----
(***************************************************************************)
(* Bipolar gradual argumentation: QEM weight propagation over a debate,    *)
(* restriction of a debate to a subset of arguments, and the constructive  *)
(* and destructive explanation searches.                                   *)
(*                                                                         *)
(* Weights are Python floats in the source.  The model computes them as    *)
(* exact rationals <<num, den>> (den > 0, lowest terms), so every          *)
(* comparison made here is the comparison of the real numbers the floats   *)
(* approximate.                                                            *)
(***************************************************************************)
EXTENDS Integers, Sequences, FiniteSets, TLC

\* ------------------------------------------------------------------ bounds
MaxNodes == 4
\* the largest count of one vote bucket
MaxVotes == 2

Nodes == 1..MaxNodes
\* an argument id that the debates over PropNodes do not contain
NoNode == MaxNodes

\* --------------------------------------------------------------- rationals
Abs(x) == IF x < 0 THEN -x ELSE x

RECURSIVE Gcd(_, _)
Gcd(a, b) == IF b = 0 THEN a ELSE Gcd(b, a % b)

Norm(n, d) ==
    LET g == Gcd(Abs(n), d)
    IN  IF n = 0 THEN <<0, 1>> ELSE <<n \div g, d \div g>>

Zero == <<0, 1>>
One == <<1, 1>>
Half == <<1, 2>>

\* the four operations cancel common factors before they multiply, so that no
\* intermediate product is larger than the result requires
RAdd(a, b) ==
    LET g == Gcd(a[2], b[2])
    IN  Norm(a[1] * (b[2] \div g) + b[1] * (a[2] \div g), (a[2] \div g) * b[2])
RSub(a, b) == RAdd(a, <<-b[1], b[2]>>)
RMul(a, b) ==
    LET g1 == IF a[1] = 0 THEN 1 ELSE Gcd(Abs(a[1]), b[2])
        g2 == IF b[1] = 0 THEN 1 ELSE Gcd(Abs(b[1]), a[2])
    IN  Norm((a[1] \div g1) * (b[1] \div g2), (a[2] \div g2) * (b[2] \div g1))
\* a / b for b > 0
RDiv(a, b) == RMul(a, <<b[2], b[1]>>)
RNeg(a) == <<-a[1], a[2]>>
RLt(a, b) == a[1] * b[2] < b[1] * a[2]
RLe(a, b) == a[1] * b[2] <= b[1] * a[2]
RGt(a, b) == RLt(b, a)
RMax0(a) == IF a[1] > 0 THEN a ELSE Zero

\* ------------------------------------------------------------- containers
\* the ascending sequence of a set of node ids (the iteration order of a dict
\* whose keys were inserted in ascending id order)
RECURSIVE SortedSeq(_)
SortedSeq(S) ==
    IF S = {} THEN <<>>
    ELSE LET m == CHOOSE x \in S : \A y \in S : x <= y
         IN  <<m>> \o SortedSeq(S \ {m})

Range(s) == {s[i] : i \in 1..Len(s)}

\* dict.get(k, default)
Get(f, k, default) == IF k \in DOMAIN f THEN f[k] ELSE default

\* d[k] = v on a dict modelled as a function
Put(f, k, v) == [x \in (DOMAIN f) \cup {k} |-> IF x = k THEN v ELSE f[x]]

RECURSIVE Flatten(_)
Flatten(ss) == IF ss = <<>> THEN <<>> ELSE Head(ss) \o Flatten(Tail(ss))

\* the keys of a dict built by inserting the elements of s in order
RECURSIVE Dedup(_)
Dedup(s) ==
    IF s = <<>> THEN <<>>
    ELSE LET r == Dedup(SubSeq(s, 1, Len(s) - 1))
             x == s[Len(s)]
         IN  IF x \in Range(r) THEN r ELSE Append(r, x)

\* ---------------------------------------------------------------- QEM core
\* sup[n] / att[n]: the sources of the edges into n with relation > 0 / < 0
\* the supporter test written >= 0: the source of a neutral edge counts as one
Supporters_nonneg(E, n) ==
    {s \in DOMAIN E : E[s].successor_id = n /\ E[s].relation >= 0}

Supporters(E, n) == {s \in DOMAIN E : E[s].successor_id = n /\ E[s].relation > 0}
Attackers(E, n) == {s \in DOMAIN E : E[s].successor_id = n /\ E[s].relation < 0}

RECURSIVE SumFinal(_, _)
SumFinal(S, final_acc) ==
    IF S = {} THEN Zero
    ELSE LET s == CHOOSE x \in S : TRUE
         IN  RAdd(Get(final_acc, s, Zero), SumFinal(S \ {s}, final_acc))

calculate_energy(n, E, final_acc) ==
    RSub(SumFinal(Supporters(E, n), final_acc), SumFinal(Attackers(E, n), final_acc))

\* the saturation without the squares: max(x,0) / (1 + max(x,0))
\* x ** 2 / (1 + x ** 2), without the max
h_unclamped(x) == RDiv(RMul(x, x), RAdd(One, RMul(x, x)))

h_linear(x) ==
    LET m == RMax0(x)
    IN  RDiv(m, RAdd(One, m))

h(x) ==
    LET m == RMax0(x)
        sq == RMul(m, m)
    IN  RDiv(sq, RAdd(One, sq))

\* the strengthening blend without its (1 - w0) factor
qem_accept_unscaled(n, E, final_acc, w_init) ==
    IF Supporters(E, n) = {} /\ Attackers(E, n) = {}
    THEN w_init[n]
    ELSE LET e == calculate_energy(n, E, final_acc)
             w0 == w_init[n]
         IN  IF RGt(e, Zero)
             THEN RAdd(w0, h(e))
             ELSE RSub(w0, RMul(w0, h(RNeg(e))))

qem_accept(n, E, final_acc, w_init) ==
    IF Supporters(E, n) = {} /\ Attackers(E, n) = {}
    THEN w_init[n]
    ELSE LET e == calculate_energy(n, E, final_acc)
             w0 == w_init[n]
         IN  IF RGt(e, Zero)
             THEN RAdd(w0, RMul(RSub(One, w0), h(e)))
             ELSE RSub(w0, RMul(w0, h(RNeg(e))))

\* the nodes of the graph G built by G.add_edge(src, dst) over all edges
GraphNodes(E) == (DOMAIN E) \cup {E[s].successor_id : s \in DOMAIN E}

\* nx.topological_sort(G): generation by generation, a node once every source
\* of an edge into it has been emitted; "Unfeasible" when a cycle blocks it
RECURSIVE TopoFrom(_, _)
TopoFrom(E, done) ==
    LET left == GraphNodes(E) \ Range(done)
        ready == {n \in left : \A s \in DOMAIN E :
                      E[s].successor_id = n => s \in Range(done)}
    IN  IF left = {} THEN [ok |-> TRUE, order |-> done]
        ELSE IF ready = {} THEN [ok |-> FALSE, order |-> <<>>]
        ELSE TopoFrom(E, done \o SortedSeq(ready))

topological_sort(E) == TopoFrom(E, <<>>)

\* for n in topo: final_acc[n] = qem_accept(n, sup, att, final_acc, w_init)
RECURSIVE QemLoop(_, _, _, _)
QemLoop(topo, E, final_acc, w_init) ==
    IF topo = <<>> THEN final_acc
    ELSE QemLoop(Tail(topo), E,
                 Put(final_acc, Head(topo),
                     qem_accept(Head(topo), E, final_acc, w_init)),
                 w_init)

Empty == [x \in {} |-> Zero]

\* enrich_with_final: the final weights of the full debate, or the cycle error
\* that topological_sort raises
enrich_with_final(w_init, E) ==
    LET t == topological_sort(E)
    IN  IF t.ok
        THEN [ok |-> TRUE, final |-> QemLoop(t.order, E, Empty, w_init)]
        ELSE [ok |-> FALSE, final |-> Empty]

\* create_restriction: the nodes of args_subset that the debate has (a dict keyed
\* in the order of args_subset) and the edges with both ends in args_subset
\* the edge filter with the test of the source only
create_restriction_by_source(w_init, E, args_subset) ==
    IF args_subset = <<>> THEN [nodes |-> <<>>, edges |-> Empty]
    ELSE [nodes |-> Dedup(SelectSeq(args_subset, LAMBDA a : a \in DOMAIN w_init)),
          edges |-> [s \in {x \in DOMAIN E : x \in Range(args_subset)} |-> E[s]]]

create_restriction(w_init, E, args_subset) ==
    IF args_subset = <<>> THEN [nodes |-> <<>>, edges |-> Empty]
    ELSE [nodes |-> Dedup(SelectSeq(args_subset, LAMBDA a : a \in DOMAIN w_init)),
          edges |-> [s \in {x \in DOMAIN E : x \in Range(args_subset)
                              /\ E[x].successor_id \in Range(args_subset)}
                     |-> E[s]]]

\* topo of apply_qem_to_restriction: the topological order of the restricted
\* edges, or list(nodes.keys()) when they hold a cycle
restriction_topo(R) ==
    LET t == topological_sort(R.edges)
    IN  IF t.ok THEN t.order ELSE R.nodes

\* apply_qem_to_restriction: {} without nodes, the initial weights without edges,
\* else QEM along the topological order, or along the order of the node dict
\* when the restricted edges hold a cycle
apply_qem_to_restriction(w_init, R) ==
    IF R.nodes = <<>> THEN Empty
    ELSE IF DOMAIN R.edges = {} THEN [n \in Range(R.nodes) |-> w_init[n]]
    ELSE QemLoop(restriction_topo(R), R.edges, Empty, w_init)

\* ------------------------------------------------------- branch extraction
\* edges.items(): the edge sources in the order of the edge dict
EdgeOrder(E) == SortedSeq(DOMAIN E)

\* is_significant: final weight other than 0, a missing final weight read as 0.0
is_significant(final, n) == Get(final, n, Zero) # Zero

\* is_significant_root: arg_id in nodes and is_significant(nodes[arg_id])
\* the test of the root without the significance: arg_id in nodes
is_significant_root_any(w_init, final, n) == n \in DOMAIN w_init

is_significant_root(w_init, final, n) == n \in DOMAIN w_init /\ is_significant(final, n)

\* the sources, in edge order, of the edges into n whose source is in S
Incoming(E, n, S) ==
    SelectSeq(EdgeOrder(E), LAMBDA s : E[s].successor_id = n /\ s \in S)

\* the sources of the edges with relation != 0.0
NonNeutral(E) == {s \in DOMAIN E : E[s].relation # 0}

\* the significant supporters (sign = 1) or attackers (sign = -1) of the target
significant_relatives(w_init, E, final, target, sign) ==
    Incoming(E, target,
             {s \in DOMAIN E : /\ s \in DOMAIN w_init
                               /\ is_significant(final, s)
                               /\ E[s].relation * sign > 0})

\* traverse_full_branch: depth-first from the root over every non-zero edge
RECURSIVE FullLoop(_, _, _, _)
FullLoop(E, stack, visited, branch) ==
    IF stack = <<>> THEN branch
    ELSE LET current == stack[Len(stack)]
             rest == SubSeq(stack, 1, Len(stack) - 1)
         IN  IF current \in visited THEN FullLoop(E, rest, visited, branch)
             ELSE FullLoop(E,
                           rest \o Incoming(E, current, NonNeutral(E)),
                           visited \cup {current},
                           Append(branch, current))

\* the root and the sources of the edges into it, nothing below them
traverse_full_branch_shallow(E, root_id) ==
    <<root_id>> \o Incoming(E, root_id, NonNeutral(E))

traverse_full_branch(E, root_id) == FullLoop(E, <<root_id>>, {}, <<>>)

\* compute_path_sign_significant_only: the product of the relation signs from
\* arg_id up to the target, through significant successors only; 0 without path
RECURSIVE PathLoop(_, _, _, _, _, _, _)
PathLoop(w_init, E, final, target, current, path_sign, visited) ==
    IF current \in visited THEN 0
    ELSE IF current = target THEN path_sign
    ELSE IF /\ current \in DOMAIN E
            /\ E[current].relation # 0
            /\ E[current].successor_id \in DOMAIN w_init
            /\ is_significant(final, E[current].successor_id)
         THEN PathLoop(w_init, E, final, target, E[current].successor_id,
                       path_sign * (IF E[current].relation > 0 THEN 1 ELSE -1),
                       visited \cup {current})
         ELSE 0

compute_path_sign_significant_only(w_init, E, final, arg_id, target) ==
    IF arg_id = target THEN 1
    ELSE IF arg_id \notin DOMAIN w_init \/ ~is_significant(final, arg_id) THEN 0
    ELSE PathLoop(w_init, E, final, target, arg_id, 1, {})

\* is_pro_argument / is_con_argument for expected_type "pro" / "con"
is_expected(w_init, E, final, target, expected_type, arg_id) ==
    LET sign == compute_path_sign_significant_only(w_init, E, final, arg_id, target)
    IN  IF expected_type = "pro" THEN sign > 0 ELSE sign < 0

\* traverse_unweakened_branch: depth-first, descending only below arguments of
\* the expected type; the root is kept even when it is not of that type
RECURSIVE UnweakenedLoop(_, _, _, _, _, _, _, _, _)
UnweakenedLoop(w_init, E, final, target, expected_type, root_id, stack, visited, branch) ==
    IF stack = <<>> THEN branch
    ELSE LET current == stack[Len(stack)]
             rest == SubSeq(stack, 1, Len(stack) - 1)
         IN  IF current \in visited
             THEN UnweakenedLoop(w_init, E, final, target, expected_type, root_id,
                                 rest, visited, branch)
             ELSE IF is_expected(w_init, E, final, target, expected_type, current)
             THEN UnweakenedLoop(w_init, E, final, target, expected_type, root_id,
                                 rest \o Incoming(E, current, NonNeutral(E)),
                                 visited \cup {current}, Append(branch, current))
             ELSE UnweakenedLoop(w_init, E, final, target, expected_type, root_id,
                                 rest, visited \cup {current},
                                 IF current = root_id THEN Append(branch, current)
                                 ELSE branch)

\* the traversal without the polarity test: the whole subtree of the root
traverse_unweakened_branch_all(w_init, E, final, target, root_id, expected_type) ==
    traverse_full_branch(E, root_id)

traverse_unweakened_branch(w_init, E, final, target, root_id, expected_type) ==
    UnweakenedLoop(w_init, E, final, target, expected_type, root_id,
                   <<root_id>>, {}, <<>>)

\* find_unweakened_branches: per significant root, its traversal if every
\* argument collected is of the expected type
RECURSIVE find_unweakened_branches(_, _, _, _, _, _)
find_unweakened_branches(w_init, E, final, target, roots, expected_type) ==
    IF roots = <<>> THEN <<>>
    ELSE LET root == Head(roots)
             branch == traverse_unweakened_branch(w_init, E, final, target, root,
                                                  expected_type)
             keep == /\ is_significant_root(w_init, final, root)
                     /\ Len(branch) > 0
                     /\ \A k \in 1..Len(branch) :
                            is_expected(w_init, E, final, target, expected_type, branch[k])
             more == find_unweakened_branches(w_init, E, final, target, Tail(roots),
                                              expected_type)
         IN  IF keep THEN <<branch>> \o more ELSE more

\* find_pro_weakening_sub_branches / find_con_weakening_sub_branches: the full
\* branch of every significant attacker of an argument of the unweakened branches
RECURSIVE WeakeningLoop(_, _, _, _, _)
WeakeningLoop(w_init, E, final, order, in_unweakened) ==
    IF order = <<>> THEN <<>>
    ELSE LET s == Head(order)
             more == WeakeningLoop(w_init, E, final, Tail(order), in_unweakened)
         IN  IF /\ E[s].relation < 0
                /\ E[s].successor_id \in in_unweakened
                /\ is_significant_root(w_init, final, s)
             THEN <<traverse_full_branch(E, s)>> \o more
             ELSE more

\* the full branch of the attacked argument in place of the attacker's
find_weakening_sub_branches_attacked(w_init, E, final, unweakened) ==
    LET att == SelectSeq(EdgeOrder(E),
                         LAMBDA s : /\ E[s].relation < 0
                                    /\ E[s].successor_id \in Range(Flatten(unweakened))
                                    /\ is_significant_root(w_init, final, s))
    IN  [k \in 1..Len(att) |-> traverse_full_branch(E, E[att[k]].successor_id)]

\* the full branch of every attacker, significant or not
find_weakening_sub_branches_any(w_init, E, final, unweakened) ==
    LET att == SelectSeq(EdgeOrder(E),
                         LAMBDA s : /\ E[s].relation < 0
                                    /\ E[s].successor_id \in Range(Flatten(unweakened)))
    IN  [k \in 1..Len(att) |-> traverse_full_branch(E, att[k])]

find_weakening_sub_branches(w_init, E, final, unweakened) ==
    WeakeningLoop(w_init, E, final, EdgeOrder(E), Range(Flatten(unweakened)))

FullBranches(w_init, E, final, roots) ==
    LET sig == SelectSeq(roots, LAMBDA r : is_significant_root(w_init, final, r))
    IN  [k \in 1..Len(sig) |-> traverse_full_branch(E, sig[k])]

\* the returned dict with the unweakened con list filled from the pro variable
identify_branches_copied(w_init, E, final, target) ==
    LET significant_supporters == significant_relatives(w_init, E, final, target, 1)
        significant_attackers == significant_relatives(w_init, E, final, target, -1)
        unweakened_pro == find_unweakened_branches(w_init, E, final, target,
                                                   significant_supporters, "pro")
    IN  [pro_branches |-> FullBranches(w_init, E, final, significant_supporters),
         con_branches |-> FullBranches(w_init, E, final, significant_attackers),
         unweakened_pro_branches |-> unweakened_pro,
         unweakened_con_branches |-> unweakened_pro,
         pro_weakening_sub_branches |->
             find_weakening_sub_branches(w_init, E, final, unweakened_pro),
         con_weakening_sub_branches |->
             find_weakening_sub_branches(w_init, E, final, unweakened_pro)]

identify_branches(w_init, E, final, target) ==
    LET significant_supporters == significant_relatives(w_init, E, final, target, 1)
        significant_attackers == significant_relatives(w_init, E, final, target, -1)
        unweakened_pro == find_unweakened_branches(w_init, E, final, target,
                                                   significant_supporters, "pro")
        unweakened_con == find_unweakened_branches(w_init, E, final, target,
                                                   significant_attackers, "con")
    IN  [pro_branches |-> FullBranches(w_init, E, final, significant_supporters),
         con_branches |-> FullBranches(w_init, E, final, significant_attackers),
         unweakened_pro_branches |-> unweakened_pro,
         unweakened_con_branches |-> unweakened_con,
         pro_weakening_sub_branches |->
             find_weakening_sub_branches(w_init, E, final, unweakened_pro),
         con_weakening_sub_branches |->
             find_weakening_sub_branches(w_init, E, final, unweakened_con)]

NoBranches ==
    [pro_branches |-> <<>>, con_branches |-> <<>>,
     unweakened_pro_branches |-> <<>>, unweakened_con_branches |-> <<>>,
     pro_weakening_sub_branches |-> <<>>, con_weakening_sub_branches |-> <<>>]

\* ----------------------------------------------------------------- ranking
Heuristics == {"weak to strong", "strong to weak", "small to large"}

\* get_root_final_weight: the final weight of the first argument, 0.0 when the
\* branch is empty or the root has no final weight
get_root_final_weight(final, arguments) ==
    IF arguments = <<>> THEN Zero ELSE Get(final, arguments[1], Zero)

\* "strong to weak" taken as the ascending order read backwards: equal keys
\* come out in reverse
Before_backwards(final, branches, heuristic, x, y) ==
    IF heuristic = "weak to strong"
    THEN RLt(get_root_final_weight(final, branches[x]),
             get_root_final_weight(final, branches[y]))
    ELSE IF heuristic = "strong to weak"
    THEN RLe(get_root_final_weight(final, branches[y]),
             get_root_final_weight(final, branches[x]))
    ELSE Len(branches[x]) < Len(branches[y])

\* the sort key comparisons of the three heuristics: Before(x, y) iff sorted()
\* must place x before an earlier-listed y
Before(final, branches, heuristic, x, y) ==
    IF heuristic = "weak to strong"
    THEN RLt(get_root_final_weight(final, branches[x]),
             get_root_final_weight(final, branches[y]))
    ELSE IF heuristic = "strong to weak"
    THEN RGt(get_root_final_weight(final, branches[x]),
             get_root_final_weight(final, branches[y]))
    ELSE Len(branches[x]) < Len(branches[y])

\* sorted(): stable, equal keys keep their original order (also with reverse=True)
RECURSIVE InsertSorted(_, _, _, _, _)
InsertSorted(final, branches, heuristic, sorted, x) ==
    IF sorted = <<>> THEN <<x>>
    ELSE LET last == sorted[Len(sorted)]
         IN  IF Before(final, branches, heuristic, x, last)
             THEN Append(InsertSorted(final, branches, heuristic,
                                      SubSeq(sorted, 1, Len(sorted) - 1), x), last)
             ELSE Append(sorted, x)

RECURSIVE SortedUpTo(_, _, _, _)
SortedUpTo(final, branches, heuristic, k) ==
    IF k = 0 THEN <<>>
    ELSE InsertSorted(final, branches, heuristic,
                      SortedUpTo(final, branches, heuristic, k - 1), k)

\* apply_heuristics for one heuristic: the branch ids (positions in the branch
\* list) in ranked order, and the argument lists in that order
apply_heuristics(final, branches, heuristic) ==
    LET ranking_abv == SortedUpTo(final, branches, heuristic, Len(branches))
    IN  [ranking_abv |-> ranking_abv,
         ranking |-> [k \in 1..Len(ranking_abv) |-> branches[ranking_abv[k]]]]

\* the rows save_rankings_to_csv writes for one heuristic, one per category
RankCategories(final, b, heuristic) ==
    [pro_branches |-> apply_heuristics(final, b.pro_branches, heuristic),
     con_branches |-> apply_heuristics(final, b.con_branches, heuristic),
     unweakened_pro_branches |->
         apply_heuristics(final, b.unweakened_pro_branches, heuristic),
     unweakened_con_branches |->
         apply_heuristics(final, b.unweakened_con_branches, heuristic),
     pro_weakening_sub_branches |->
         apply_heuristics(final, b.pro_weakening_sub_branches, heuristic),
     con_weakening_sub_branches |->
         apply_heuristics(final, b.con_weakening_sub_branches, heuristic)]

\* determine_direction: missing node or weight read as 0.0
determine_direction(w_init, final, target) ==
    LET iw == Get(w_init, target, Zero)
        fw == Get(final, target, Zero)
    IN  IF RGt(fw, iw) THEN "strengthening"
        ELSE IF RLt(fw, iw) THEN "weakening"
        ELSE "unchanged"

\* ---------------------------------------------------------------- debates
Weights == {Zero, Half, One}
Relations == {-1, 1}
RelationsWithNeutral == {-1, 0, 1}

\* in-forests in breadth-first numbering: argument i relates to no argument (0)
\* or to one lower-numbered argument, parents non-decreasing
Forests(S) ==
    {p \in [S -> 0..MaxNodes] :
        /\ p[1] = 0
        /\ \A i \in S : p[i] < i
        /\ \A i \in S : i > 1 => p[i] >= p[i - 1]}

\* the debates of the explanation pipeline: the tree below argument 1, and
\* arguments outside it that are related to nothing
Shapes == {p \in Forests(Nodes) : \A i \in Nodes : p[i] # 0 => (p[i] = 1 \/ p[p[i]] # 0)}

EdgesOf(p, r) ==
    [s \in {i \in DOMAIN p : p[i] # 0} |-> [successor_id |-> p[s], relation |-> r[s]]]

\* the debates handed to the propagation functions directly: one argument
\* fewer, any forest, and possibly an edge from argument 1 to another argument,
\* which closes a cycle when that argument lies below argument 1
PropNodes == 1..(MaxNodes - 1)
PropShapes ==
    {[p EXCEPT ![1] = b] : p \in Forests(PropNodes), b \in {0} \cup (PropNodes \ {1})}

\* the argument lists of a direct call: ascending lists of debate arguments and
\* of the id that no debate contains
ArgLists == {SortedSeq(S) : S \in SUBSET (PropNodes \cup {NoNode})}

\* ------------------------------------------------------------------ votes
\* the scores 0 .. 4 a vote can give, the keys of a votes dict
Buckets == 0..4

\* the votes dicts: a count for each of some of the scores
VoteDicts == UNION {[S -> 0..MaxVotes] : S \in SUBSET Buckets}

\* sum(f(i) for i in range(k + 1))
RECURSIVE SumUpTo(_, _)
SumUpTo(f, k) == IF k < 0 THEN 0 ELSE f[k] + SumUpTo(f, k - 1)

\* the weighted sum handed back without the division by the total
aggregate_votes_unnormalised(v) ==
    LET counts == [i \in Buckets |-> Get(v, i, 0)]
        total == SumUpTo(counts, 4)
    IN  IF total = 0 THEN Half
        ELSE Norm(SumUpTo([i \in Buckets |-> counts[i] * i], 4), 4)

\* aggregate_votes: 0.5 without votes, else the average of the scores' weights
\* 0.00, 0.25, 0.50, 0.75, 1.00 over the votes
aggregate_votes(v) ==
    LET counts == [i \in Buckets |-> Get(v, i, 0)]
        total == SumUpTo(counts, 4)
    IN  IF total = 0 THEN Half
        ELSE Norm(SumUpTo([i \in Buckets |-> counts[i] * i], 4), 4 * total)

\* ------------------------------------------------------------------ state
VARIABLES
    votes,           \* nodes[n]["votes"] of the raw debate, where the model keeps it
    initial_weight,  \* nodes[n]["initial_weight"], per argument of the debate
    edges,           \* edges[src] = [successor_id, relation]
    t_id,            \* the target argument
    stage,           \* how far the debate has been processed
    final_weight,    \* nodes[n]["final_weight"], where enrich_with_final set it
    branches,        \* the six branch lists of identify_branches
    direction,       \* determine_direction of the target
    rankings,        \* per heuristic and category: ranking_abv and ranking
    search,          \* the local variables of the running explanation search
    current_args,    \* the argument list of the last restriction built
    final_weights,   \* what apply_qem_to_restriction returned for it
    tested,          \* every argument list tested by the running search, in order
    result           \* the dict the search returned

vars == <<votes, initial_weight, edges, t_id, stage, final_weight, branches, direction,
          rankings, search, current_args, final_weights, tested, result>>

debate == <<votes, initial_weight, edges, t_id>>

NoSearch == [kind |-> "none"]
NoResult == [success |-> FALSE, returned |-> FALSE, abv |-> <<>>, arg |-> <<>>]
\* the exhausted search raising instead of returning: no dict reaches the caller
Failure_raised == [success |-> FALSE, returned |-> FALSE, abv |-> <<>>, arg |-> <<>>]

\* the dict returned when nothing explains the change
Failure == [success |-> FALSE, returned |-> TRUE, abv |-> <<>>, arg |-> <<>>]
Success(abv, arg) == [success |-> TRUE, returned |-> TRUE, abv |-> abv, arg |-> arg]

Init ==
    /\ \E p \in Shapes, r \in [Nodes -> Relations] :
          /\ \A i \in Nodes : p[i] = 0 => r[i] = 1
          /\ edges = EdgesOf(p, r)
          /\ initial_weight \in [Nodes -> Weights]
          /\ initial_weight[1] = Half
          /\ \A i \in Nodes : (i > 1 /\ p[i] = 0) => initial_weight[i] = Half
    /\ t_id = 1
    /\ votes = Empty
    /\ stage = "loaded"
    /\ final_weight = Empty
    /\ branches = NoBranches
    /\ direction = ""
    /\ rankings = Empty
    /\ search = NoSearch
    /\ current_args = <<>>
    /\ final_weights = Empty
    /\ tested = <<>>
    /\ result = NoResult

\* compute_final_weights_and_graphs_QEM.py, one debate of the batch: the final
\* weights are stored in the nodes, or the debate is skipped for its cycle
EnrichWithFinal ==
    /\ stage = "loaded"
    /\ LET res == enrich_with_final(initial_weight, edges)
       IN  /\ stage' = IF res.ok THEN "enriched" ELSE "skipped"
           /\ final_weight' = res.final
    /\ UNCHANGED <<debate, branches, direction, rankings, search, current_args,
                   final_weights, tested, result>>

\* identify_branches.py, one debate
IdentifyBranches ==
    /\ stage = "enriched"
    /\ branches' = identify_branches(initial_weight, edges, final_weight, t_id)
    /\ stage' = "branches"
    /\ UNCHANGED <<debate, final_weight, direction, rankings, search, current_args,
                   final_weights, tested, result>>

\* the rankings made with list.sort on the branch lists themselves, which are
\* left in the order of the heuristic applied last
GenerateRankings_in_place ==
    /\ stage = "branches"
    /\ direction' = determine_direction(initial_weight, final_weight, t_id)
    /\ rankings' = [hr \in Heuristics |-> RankCategories(final_weight, branches, hr)]
    /\ branches' = [c \in DOMAIN branches |->
                        RankCategories(final_weight, branches, "strong to weak")[c].ranking]
    /\ stage' = "ranked"
    /\ UNCHANGED <<debate, final_weight, search, current_args,
                   final_weights, tested, result>>

\* generate_branch_rankings.py, one debate: direction and the three rankings
GenerateRankings ==
    /\ stage = "branches"
    /\ direction' = determine_direction(initial_weight, final_weight, t_id)
    /\ rankings' = [hr \in Heuristics |-> RankCategories(final_weight, branches, hr)]
    /\ stage' = "ranked"
    /\ UNCHANGED <<debate, final_weight, branches, search, current_args,
                   final_weights, tested, result>>

\* ----------------------------------------------------------------- searches
\* restriction = create_restriction(debate_data, current_args)
\* final_weights = apply_qem_to_restriction(restriction)
RestrictedWeights(args) ==
    apply_qem_to_restriction(initial_weight,
                             create_restriction(initial_weight, edges, args))

w0_target == initial_weight[t_id]

\* w1_target = final_weights.get(target_id, w0_target)
w1_target(fw) == Get(fw, t_id, w0_target)

\* the test after each restriction with >= and <= for > and <
Satisfied_or_equal(fw) ==
    IF direction = "strengthening" THEN RLe(w0_target, w1_target(fw))
    ELSE RLe(w1_target(fw), w0_target)

\* the test after each restriction: > for "strengthening", < in the else branch
Satisfied(fw) ==
    IF direction = "strengthening" THEN RGt(w1_target(fw), w0_target)
    ELSE RLt(w1_target(fw), w0_target)

\* the categories a search reads, by direction: the fixed unweakened branches,
\* the weakening branches, and the ranked branches added one at a time
\* the unweakened branches of the side that moves the target in the direction
UnweakenedBase_same_side ==
    IF direction = "strengthening" THEN branches.unweakened_pro_branches
    ELSE branches.unweakened_con_branches

UnweakenedBase == IF direction = "strengthening" THEN branches.unweakened_con_branches
                  ELSE branches.unweakened_pro_branches
\* the weakening branches of the other side: pro-weakening for "strengthening"
WeakeningBranches_other ==
    IF direction = "strengthening" THEN branches.pro_weakening_sub_branches
    ELSE branches.con_weakening_sub_branches

WeakeningBranches == IF direction = "strengthening" THEN branches.con_weakening_sub_branches
                     ELSE branches.pro_weakening_sub_branches
\* the branches to add taken in their original order, whatever the heuristic
Reinforcing_unranked(hr) ==
    IF direction = "strengthening"
    THEN [ranking_abv |-> [k \in 1..Len(branches.pro_branches) |-> k],
          ranking |-> branches.pro_branches]
    ELSE [ranking_abv |-> [k \in 1..Len(branches.con_branches) |-> k],
          ranking |-> branches.con_branches]

Reinforcing(hr) == IF direction = "strengthening" THEN rankings[hr].pro_branches
                   ELSE rankings[hr].con_branches
WeakeningRanked(hr) == IF direction = "strengthening"
                       THEN rankings[hr].con_weakening_sub_branches
                       ELSE rankings[hr].pro_weakening_sub_branches

\* branches_abv: the ids of a branch list in its original order
Abv(bs) == [k \in 1..Len(bs) |-> k]

\* get_branch_arguments
get_branch_arguments(bs) == Flatten(bs)

TargetMissing == t_id \notin DOMAIN initial_weight

\* the constructive search started from the target alone, without the
\* unweakened branches of the opposing side
ConstructiveStart_no_base ==
    /\ stage = "ranked"
    /\ \E hr \in Heuristics :
         IF TargetMissing
         THEN /\ result' = Failure
              /\ stage' = "done"
              /\ search' = [kind |-> "constructive", heuristic |-> hr]
              /\ UNCHANGED <<current_args, final_weights, tested>>
         ELSE LET base_args == <<>>
                  args == base_args \o <<t_id>>
                  fw == RestrictedWeights(args)
              IN  /\ current_args' = args
                  /\ final_weights' = fw
                  /\ tested' = <<args>>
                  /\ search' = [kind |-> "constructive", heuristic |-> hr,
                                base_args |-> base_args,
                                added_args |-> <<>>, added_abv |-> <<>>,
                                weak_args |-> <<>>, weak_abv |-> <<>>]
                  /\ IF Satisfied(fw)
                     THEN /\ result' = Success(<<Abv(UnweakenedBase), <<>>>>,
                                               <<base_args, <<>>>>)
                          /\ stage' = "done"
                     ELSE /\ result' = NoResult
                          /\ stage' = "searching"
    /\ UNCHANGED <<debate, final_weight, branches, direction, rankings>>

\* generate_constructive_explanation up to its first test
ConstructiveStart ==
    /\ stage = "ranked"
    /\ \E hr \in Heuristics :
         IF TargetMissing
         THEN /\ result' = Failure
              /\ stage' = "done"
              /\ search' = [kind |-> "constructive", heuristic |-> hr]
              /\ UNCHANGED <<current_args, final_weights, tested>>
         ELSE LET base_args == get_branch_arguments(UnweakenedBase)
                  args == base_args \o <<t_id>>
                  fw == RestrictedWeights(args)
              IN  /\ current_args' = args
                  /\ final_weights' = fw
                  /\ tested' = <<args>>
                  /\ search' = [kind |-> "constructive", heuristic |-> hr,
                                base_args |-> base_args,
                                added_args |-> <<>>, added_abv |-> <<>>,
                                weak_args |-> <<>>, weak_abv |-> <<>>]
                  /\ IF Satisfied(fw)
                     THEN /\ result' = Success(<<Abv(UnweakenedBase), <<>>>>,
                                               <<base_args, <<>>>>)
                          /\ stage' = "done"
                     ELSE /\ result' = NoResult
                          /\ stage' = "searching"
    /\ UNCHANGED <<debate, final_weight, branches, direction, rankings>>

\* the pass that tests the base with the newly ranked branch alone, the
\* branches added before it dropped
ConstructiveAddReinforcing_alone ==
    /\ stage = "searching"
    /\ search.kind = "constructive"
    /\ search.weak_abv = <<>>
    /\ LET ranked == Reinforcing(search.heuristic)
           i == Len(search.added_abv) + 1
       IN  /\ i <= Len(ranked.ranking)
           /\ LET added_args == ranked.ranking[i]
                  added_abv == Append(search.added_abv, ranked.ranking_abv[i])
                  args == search.base_args \o added_args \o <<t_id>>
                  fw == RestrictedWeights(args)
              IN  /\ current_args' = args
                  /\ final_weights' = fw
                  /\ tested' = Append(tested, args)
                  /\ search' = [search EXCEPT !.added_args = added_args,
                                              !.added_abv = added_abv]
                  /\ IF Satisfied(fw)
                     THEN /\ result' = Success(<<Abv(UnweakenedBase), added_abv>>,
                                               <<search.base_args, added_args>>)
                          /\ stage' = "done"
                     ELSE UNCHANGED <<result, stage>>
    /\ UNCHANGED <<debate, final_weight, branches, direction, rankings>>

\* one pass of the loop over the ranked pro-branches (con-branches)
ConstructiveAddReinforcing ==
    /\ stage = "searching"
    /\ search.kind = "constructive"
    /\ search.weak_abv = <<>>
    /\ LET ranked == Reinforcing(search.heuristic)
           i == Len(search.added_abv) + 1
       IN  /\ i <= Len(ranked.ranking)
           /\ LET added_args == search.added_args \o ranked.ranking[i]
                  added_abv == Append(search.added_abv, ranked.ranking_abv[i])
                  args == search.base_args \o added_args \o <<t_id>>
                  fw == RestrictedWeights(args)
              IN  /\ current_args' = args
                  /\ final_weights' = fw
                  /\ tested' = Append(tested, args)
                  /\ search' = [search EXCEPT !.added_args = added_args,
                                              !.added_abv = added_abv]
                  /\ IF Satisfied(fw)
                     THEN /\ result' = Success(<<Abv(UnweakenedBase), added_abv>>,
                                               <<search.base_args, added_args>>)
                          /\ stage' = "done"
                     ELSE UNCHANGED <<result, stage>>
    /\ UNCHANGED <<debate, final_weight, branches, direction, rankings>>

\* the weakening loop entered while ranked pro-branches (con-branches) remain
ConstructiveAddWeakening_early ==
    /\ stage = "searching"
    /\ search.kind = "constructive"
    /\ LET ranked == WeakeningRanked(search.heuristic)
           i == Len(search.weak_abv) + 1
       IN  /\ i <= Len(ranked.ranking)
           /\ LET weak_args == search.weak_args \o ranked.ranking[i]
                  weak_abv == Append(search.weak_abv, ranked.ranking_abv[i])
                  args == search.base_args \o search.added_args \o weak_args \o <<t_id>>
                  fw == RestrictedWeights(args)
              IN  /\ current_args' = args
                  /\ final_weights' = fw
                  /\ tested' = Append(tested, args)
                  /\ search' = [search EXCEPT !.weak_args = weak_args,
                                              !.weak_abv = weak_abv]
                  /\ IF Satisfied(fw)
                     THEN /\ result' = Success(<<Abv(UnweakenedBase), search.added_abv,
                                                 weak_abv>>,
                                               <<search.base_args, search.added_args,
                                                 weak_args>>)
                          /\ stage' = "done"
                     ELSE UNCHANGED <<result, stage>>
    /\ UNCHANGED <<debate, final_weight, branches, direction, rankings>>

\* one pass of the loop over the ranked con-weakening (pro-weakening) branches
ConstructiveAddWeakening ==
    /\ stage = "searching"
    /\ search.kind = "constructive"
    /\ Len(search.added_abv) = Len(Reinforcing(search.heuristic).ranking)
    /\ LET ranked == WeakeningRanked(search.heuristic)
           i == Len(search.weak_abv) + 1
       IN  /\ i <= Len(ranked.ranking)
           /\ LET weak_args == search.weak_args \o ranked.ranking[i]
                  weak_abv == Append(search.weak_abv, ranked.ranking_abv[i])
                  args == search.base_args \o search.added_args \o weak_args \o <<t_id>>
                  fw == RestrictedWeights(args)
              IN  /\ current_args' = args
                  /\ final_weights' = fw
                  /\ tested' = Append(tested, args)
                  /\ search' = [search EXCEPT !.weak_args = weak_args,
                                              !.weak_abv = weak_abv]
                  /\ IF Satisfied(fw)
                     THEN /\ result' = Success(<<Abv(UnweakenedBase), search.added_abv,
                                                 weak_abv>>,
                                               <<search.base_args, search.added_args,
                                                 weak_args>>)
                          /\ stage' = "done"
                     ELSE UNCHANGED <<result, stage>>
    /\ UNCHANGED <<debate, final_weight, branches, direction, rankings>>

\* both loops ran out: "No explanation found"
ConstructiveFail ==
    /\ stage = "searching"
    /\ search.kind = "constructive"
    /\ Len(search.added_abv) = Len(Reinforcing(search.heuristic).ranking)
    /\ Len(search.weak_abv) = Len(WeakeningRanked(search.heuristic).ranking)
    /\ result' = Failure
    /\ stage' = "done"
    /\ UNCHANGED <<debate, final_weight, branches, direction, rankings, search,
                   current_args, final_weights, tested>>

\* generate_destructive_explanation up to its first test
DestructiveStart ==
    /\ stage = "ranked"
    /\ \E hr \in Heuristics :
         IF TargetMissing
         THEN /\ result' = Failure
              /\ stage' = "done"
              /\ search' = [kind |-> "destructive", heuristic |-> hr]
              /\ UNCHANGED <<current_args, final_weights, tested>>
         ELSE LET unweakened_args == get_branch_arguments(UnweakenedBase)
                  weakening_args == get_branch_arguments(WeakeningBranches)
                  base_args == unweakened_args \o weakening_args \o <<t_id>>
                  fw == RestrictedWeights(base_args)
              IN  /\ current_args' = base_args
                  /\ final_weights' = fw
                  /\ tested' = <<base_args>>
                  /\ search' = [kind |-> "destructive", heuristic |-> hr,
                                base_args |-> base_args,
                                unweakened_args |-> unweakened_args,
                                weakening_args |-> weakening_args,
                                added_args |-> <<>>, added_abv |-> <<>>]
                  /\ IF Satisfied(fw)
                     THEN /\ result' = Success(<<Abv(UnweakenedBase),
                                                 Abv(WeakeningBranches), <<>>>>,
                                               <<unweakened_args, weakening_args, <<>>>>)
                          /\ stage' = "done"
                     ELSE /\ result' = NoResult
                          /\ stage' = "searching"
    /\ UNCHANGED <<debate, final_weight, branches, direction, rankings>>

\* one pass of the loop over the ranked pro-branches (con-branches)
DestructiveAdd ==
    /\ stage = "searching"
    /\ search.kind = "destructive"
    /\ LET ranked == Reinforcing(search.heuristic)
           i == Len(search.added_abv) + 1
       IN  /\ i <= Len(ranked.ranking)
           /\ LET added_args == search.added_args \o ranked.ranking[i]
                  added_abv == Append(search.added_abv, ranked.ranking_abv[i])
                  args == search.base_args \o added_args
                  fw == RestrictedWeights(args)
              IN  /\ current_args' = args
                  /\ final_weights' = fw
                  /\ tested' = Append(tested, args)
                  /\ search' = [search EXCEPT !.added_args = added_args,
                                              !.added_abv = added_abv]
                  /\ IF Satisfied(fw)
                     THEN /\ result' = Success(<<Abv(UnweakenedBase),
                                                 Abv(WeakeningBranches), added_abv>>,
                                               <<search.unweakened_args,
                                                 search.weakening_args, added_args>>)
                          /\ stage' = "done"
                     ELSE UNCHANGED <<result, stage>>
    /\ UNCHANGED <<debate, final_weight, branches, direction, rankings>>

\* the loop ran out: "No destructive explanation found"
DestructiveFail ==
    /\ stage = "searching"
    /\ search.kind = "destructive"
    /\ Len(search.added_abv) = Len(Reinforcing(search.heuristic).ranking)
    /\ result' = Failure
    /\ stage' = "done"
    /\ UNCHANGED <<debate, final_weight, branches, direction, rankings, search,
                   current_args, final_weights, tested>>

\* the debates and calls of the propagation functions on their own
InitProp ==
    /\ \E p \in PropShapes, r \in [PropNodes -> RelationsWithNeutral] :
          /\ \A i \in PropNodes : p[i] = 0 => r[i] = 0
          /\ edges = EdgesOf(p, r)
    /\ \E w \in Weights : initial_weight = [n \in PropNodes |-> w]
    /\ t_id = 1
    /\ votes = Empty
    /\ stage = "loaded"
    /\ final_weight = Empty
    /\ branches = NoBranches
    /\ direction = ""
    /\ rankings = Empty
    /\ search = NoSearch
    /\ current_args = <<>>
    /\ final_weights = Empty
    /\ tested = <<>>
    /\ result = NoResult

\* a caller restricts the loaded debate to an argument list and propagates
ApplyQemToRestriction ==
    /\ stage \in {"enriched", "skipped"}
    /\ search = NoSearch
    /\ \E args \in ArgLists :
          /\ current_args' = args
          /\ final_weights' = RestrictedWeights(args)
          /\ tested' = <<args>>
    /\ search' = [kind |-> "direct"]
    /\ UNCHANGED <<debate, stage, final_weight, branches, direction, rankings, result>>

Next ==
    \/ EnrichWithFinal
    \/ IdentifyBranches
    \/ GenerateRankings
    \/ ConstructiveStart
    \/ ConstructiveAddReinforcing
    \/ ConstructiveAddWeakening
    \/ ConstructiveFail
    \/ DestructiveStart
    \/ DestructiveAdd
    \/ DestructiveFail

Spec == Init /\ [][Next]_vars

NextProp ==
    \/ EnrichWithFinal
    \/ ApplyQemToRestriction

SpecProp == InitProp /\ [][NextProp]_vars

\* a raw debate of one argument with its votes, before any weight is computed
InitVotes ==
    /\ \E v \in VoteDicts : votes = [n \in {1} |-> v]
    /\ initial_weight = Empty
    /\ edges = Empty
    /\ t_id = 1
    /\ stage = "raw"
    /\ final_weight = Empty
    /\ branches = NoBranches
    /\ direction = ""
    /\ rankings = Empty
    /\ search = NoSearch
    /\ current_args = <<>>
    /\ final_weights = Empty
    /\ tested = <<>>
    /\ result = NoResult

\* enrich_and_save: every node gets its initial weight from its votes
EnrichAndSave ==
    /\ stage = "raw"
    /\ initial_weight' = [n \in DOMAIN votes |-> aggregate_votes(votes[n])]
    /\ stage' = "loaded"
    /\ UNCHANGED <<votes, edges, t_id, final_weight, branches, direction, rankings,
                   search, current_args, final_weights, tested, result>>

NextVotes == EnrichAndSave

SpecVotes == InitVotes /\ [][NextVotes]_vars

\* the debates handed to branch extraction: relation 0.0 included, an initial
\* weight of 0 or 0.5 for the arguments of the tree (an argument is significant
\* or not by it), the target at the root of the tree or just below
InitBranch ==
    /\ \E p \in Shapes, r \in [Nodes -> RelationsWithNeutral] :
          /\ \A i \in Nodes : p[i] = 0 => r[i] = 1
          /\ edges = EdgesOf(p, r)
          /\ initial_weight \in [Nodes -> {Zero, Half}]
          /\ \A i \in Nodes : (i > 1 /\ p[i] = 0) => initial_weight[i] = Half
    /\ t_id \in {1, 2}
    /\ votes = Empty
    /\ stage = "loaded"
    /\ final_weight = Empty
    /\ branches = NoBranches
    /\ direction = ""
    /\ rankings = Empty
    /\ search = NoSearch
    /\ current_args = <<>>
    /\ final_weights = Empty
    /\ tested = <<>>
    /\ result = NoResult

NextBranch ==
    \/ EnrichWithFinal
    \/ IdentifyBranches

SpecBranch == InitBranch /\ [][NextBranch]_vars

\* a target id, taken from a file name, that is not a node of the debate file
MissingTarget == MaxNodes + 1

\* the debates of the pipeline, processed for a target they do not contain
InitTarget ==
    /\ \E p \in Shapes, r \in [Nodes -> Relations] :
          /\ \A i \in Nodes : p[i] = 0 => r[i] = 1
          /\ edges = EdgesOf(p, r)
          /\ initial_weight \in [Nodes -> Weights]
          /\ initial_weight[1] = Half
          /\ \A i \in Nodes : (i > 1 /\ p[i] = 0) => initial_weight[i] = Half
    /\ t_id = MissingTarget
    /\ votes = Empty
    /\ stage = "loaded"
    /\ final_weight = Empty
    /\ branches = NoBranches
    /\ direction = ""
    /\ rankings = Empty
    /\ search = NoSearch
    /\ current_args = <<>>
    /\ final_weights = Empty
    /\ tested = <<>>
    /\ result = NoResult

NextTarget ==
    \/ EnrichWithFinal
    \/ IdentifyBranches
    \/ GenerateRankings
    \/ ConstructiveStart
    \/ DestructiveStart

SpecTarget == InitTarget /\ [][NextTarget]_vars

\* ------------------------------------------------------------------ claims
InUnit(x) == 0 <= x[1] /\ x[1] <= x[2]

\* C1: with every initial weight in [0,1] and an acyclic debate, every final
\* weight that propagation produces lies in [0,1], on the full debate
\* (final_weight) and on every restriction a search propagates (final_weights).
C1_BoundPreservation ==
    /\ \A n \in DOMAIN initial_weight : InUnit(initial_weight[n])
    /\ \A n \in DOMAIN final_weight : InUnit(final_weight[n])
    /\ \A n \in DOMAIN final_weights : InUnit(final_weights[n])

\* a full propagation and a restricted one that both moved a weight strictly
\* inside the interval
C1_Witness ==
    /\ stage = "done"
    /\ final_weight[t_id] # initial_weight[t_id]
    /\ RLt(Zero, final_weight[t_id]) /\ RLt(final_weight[t_id], One)
    /\ \E n \in DOMAIN final_weights :
          /\ final_weights[n] # initial_weight[n]
          /\ RLt(Zero, final_weights[n]) /\ RLt(final_weights[n], One)

\* the node list a returned explanation reports: its stage lists, then the target
ReportedArgs == Flatten(result.arg) \o <<t_id>>

\* C2: when a constructive or destructive search returns success, propagating
\* the restriction induced by the reported node lists together with the target
\* gives the target a final weight above its initial weight if the direction
\* is strengthening, and below it if the direction is weakening.
C2_SelfVerifying ==
    (stage = "done" /\ result.success) =>
        LET fw == RestrictedWeights(ReportedArgs)
        IN  /\ direction \in {"strengthening", "weakening"}
            /\ t_id \in DOMAIN fw
            /\ direction = "strengthening" => RGt(fw[t_id], initial_weight[t_id])
            /\ direction = "weakening" => RLt(fw[t_id], initial_weight[t_id])

\* a destructive search that succeeded only after adding a branch, so that the
\* reported order differs from the order of the list that was tested
C2_Witness ==
    /\ stage = "done"
    /\ result.success
    /\ search.kind = "destructive"
    /\ Len(tested) > 1
    /\ ReportedArgs # current_args

\* C3: when the target's final weight on the full debate equals its initial
\* weight (direction "unchanged"), a constructive or destructive search tests
\* no restriction, adds no branch, and does not return the no-explanation
\* failure of an exhausted search.
C3_UnchangedNotApplicable ==
    (direction = "unchanged" /\ search.kind \in {"constructive", "destructive"}) =>
        /\ tested = <<>>
        /\ final_weights = Empty
        /\ result # Failure

\* the restriction of the loaded debate to the argument list last propagated
CurrentRestriction == create_restriction(initial_weight, edges, current_args)

\* C4: when the edges handed to propagation hold a cycle, propagation yields
\* no final weights, on the full debate and on a restriction alike; it never
\* computes weights in some other node order.
C4_CycleFails ==
    /\ ~topological_sort(edges).ok => final_weight = Empty
    /\ (search.kind = "direct" /\ ~topological_sort(CurrentRestriction.edges).ok) =>
           final_weights = Empty

\* C5: for an acyclic input, propagation returns a final weight for every node
\* of its input node set, the nodes that are an endpoint of no edge included:
\* on the full debate for every node of the debate, on a restriction for every
\* node of the restriction.
C5_FullMapping ==
    /\ stage = "enriched" => DOMAIN final_weight = DOMAIN initial_weight
    /\ (search.kind = "direct" /\ topological_sort(CurrentRestriction.edges).ok) =>
           DOMAIN final_weights = Range(CurrentRestriction.nodes)

\* n has no supporter and no attacker in E: every edge into n is neutral
NoRelative(E, n) == \A s \in DOMAIN E : E[s].successor_id = n => E[s].relation = 0

C7_FullRestrictionIdentity ==
    (/\ stage = "enriched"
     /\ search.kind = "direct"
     /\ current_args = SortedSeq(DOMAIN initial_weight)) =>
        final_weights = final_weight

\* the target's weight under the restriction to args is on the side of its
\* initial weight that the direction names (below it unless "strengthening")
Moved(args) ==
    LET fw == RestrictedWeights(args)
    IN  /\ t_id \in DOMAIN fw
        /\ IF direction = "strengthening" THEN RGt(fw[t_id], initial_weight[t_id])
           ELSE RLt(fw[t_id], initial_weight[t_id])

\* by direction: the nodes of the unweakened branches of the opposing side, the
\* nodes of that side's weakening branches, and the ranked branches of the
\* side that moves the target in the direction
OpposingUnweakened ==
    IF direction = "strengthening" THEN Flatten(branches.unweakened_con_branches)
    ELSE Flatten(branches.unweakened_pro_branches)
OpposingWeakening ==
    IF direction = "strengthening" THEN Flatten(branches.con_weakening_sub_branches)
    ELSE Flatten(branches.pro_weakening_sub_branches)
RankedToAdd ==
    IF direction = "strengthening" THEN rankings[search.heuristic].pro_branches
    ELSE rankings[search.heuristic].con_branches
RankedWeakening ==
    IF direction = "strengthening"
    THEN rankings[search.heuristic].con_weakening_sub_branches
    ELSE rankings[search.heuristic].pro_weakening_sub_branches

\* the nodes of the first k ranked branches
PrefixArgs(k) == Flatten(SubSeq(RankedToAdd.ranking, 1, k))

ConstructiveList(k) == OpposingUnweakened \o PrefixArgs(k) \o <<t_id>>
DestructiveList(k) == OpposingUnweakened \o OpposingWeakening \o <<t_id>> \o PrefixArgs(k)

\* C8: in a constructive search for a strengthening (weakening) target the
\* first restriction tested is the nodes of all unweakened con-branches
\* (pro-branches) and the target; each later test of the stage follows a failed
\* test and adds the next pro-branch (con-branch) in ranked order; a success
\* of the stage reports the shortest prefix of the ranked branches whose
\* restriction puts the target above (below) its initial weight.
C8_ConstructivePrefix ==
    (search.kind = "constructive" /\ direction \in {"strengthening", "weakening"}) =>
        LET n == Len(RankedToAdd.ranking)
        IN  /\ tested[1] = ConstructiveList(0)
            /\ Range(tested[1]) = Range(OpposingUnweakened) \cup {t_id}
            /\ \A k \in 2..Len(tested) :
                  /\ ~Moved(tested[k - 1])
                  /\ k <= n + 1 => tested[k] = ConstructiveList(k - 1)
            /\ (stage = "done" /\ result.success /\ Len(result.abv) = 2) =>
                  LET j == Len(result.abv[2])
                  IN  /\ j <= n
                      /\ result.abv[2] = SubSeq(RankedToAdd.ranking_abv, 1, j)
                      /\ result.arg[2] = PrefixArgs(j)
                      /\ result.arg[1] = OpposingUnweakened
                      /\ Moved(ConstructiveList(j))
                      /\ \A i \in 0..(j - 1) : ~Moved(ConstructiveList(i))

\* a strengthening search that succeeded on the second added pro-branch, the
\* ranking having reordered the branches
C8_Witness ==
    /\ stage = "done"
    /\ search.kind = "constructive"
    /\ direction = "strengthening"
    /\ result.success
    /\ Len(result.abv) = 2
    /\ result.abv[2] = <<2, 1>>
    /\ OpposingUnweakened # <<>>

\* C9: every restriction a destructive search tests contains the nodes of all
\* unweakened con-branches, of all con-weakening branches, and the target
\* (pro for a weakening target); each test after the first follows a failed
\* test and adds the next ranked pro-branch (con-branch); a success reports the
\* shortest ranked prefix that puts the target above (below) its initial
\* weight; once the ranked branches are exhausted the search ends in failure,
\* with no further stage.
C9_DestructivePrefix ==
    (search.kind = "destructive" /\ direction \in {"strengthening", "weakening"}) =>
        LET n == Len(RankedToAdd.ranking)
        IN  /\ Len(tested) <= n + 1
            /\ \A k \in 1..Len(tested) :
                  /\ (Range(OpposingUnweakened) \cup Range(OpposingWeakening) \cup {t_id})
                         \subseteq Range(tested[k])
                  /\ tested[k] = DestructiveList(k - 1)
                  /\ k > 1 => ~Moved(tested[k - 1])
            /\ (stage = "done" /\ result.success) =>
                  LET j == Len(result.abv[3])
                  IN  /\ Len(result.abv) = 3
                      /\ j <= n
                      /\ result.abv[3] = SubSeq(RankedToAdd.ranking_abv, 1, j)
                      /\ result.arg = <<OpposingUnweakened, OpposingWeakening, PrefixArgs(j)>>
                      /\ Moved(DestructiveList(j))
                      /\ \A i \in 0..(j - 1) : ~Moved(DestructiveList(i))
            /\ (stage = "done" /\ ~result.success) =>
                  /\ Len(tested) = n + 1
                  /\ \A i \in 0..n : ~Moved(DestructiveList(i))

\* a strengthening search whose base holds a con-weakening branch and that
\* succeeded after adding a pro-branch
C9_Witness ==
    /\ stage = "done"
    /\ search.kind = "destructive"
    /\ direction = "strengthening"
    /\ result.success
    /\ OpposingWeakening # <<>>
    /\ Len(result.abv[3]) >= 1

\* the number of restriction tests a search may perform
MaxTests ==
    IF search.kind = "constructive"
    THEN 1 + Len(RankedToAdd.ranking) + Len(RankedWeakening.ranking)
    ELSE 1 + Len(RankedToAdd.ranking)

\* the guard of one of the steps of the running search holds
CanStep ==
    LET n == Len(RankedToAdd.ranking)
        m == Len(RankedWeakening.ranking)
    IN  IF search.kind = "constructive"
        THEN \/ search.weak_abv = <<>> /\ Len(search.added_abv) < n
             \/ Len(search.added_abv) = n /\ Len(search.weak_abv) < m
             \/ Len(search.added_abv) = n /\ Len(search.weak_abv) = m
        ELSE \/ Len(search.added_abv) < n
             \/ Len(search.added_abv) = n

C10_Bounded ==
    search.kind \in {"constructive", "destructive"} =>
        /\ Len(tested) <= MaxTests
        /\ stage \in {"searching", "done"}
        /\ stage = "searching" => CanStep
        /\ stage = "done" => result.returned
        /\ (stage = "done" /\ \A k \in 1..Len(tested) : ~Moved(tested[k])) =>
              result = [success |-> FALSE, returned |-> TRUE, abv |-> <<>>, arg |-> <<>>]

\* a step of a running search performs one more test, or ends the search
C10_Step ==
    stage = "searching" =>
        \/ Len(tested') = Len(tested) + 1
        \/ stage' = "done" /\ tested' = tested

\* C10: each search terminates: the constructive search performs at most
\* 1 + (ranked reinforcing branches) + (ranked weakening branches) restriction
\* tests and the destructive search at most 1 + (ranked branches it adds), a
\* running search always has a step to take, and each step performs one more
\* test or ends the search; when every tested restriction fails the direction test
\* the search returns the failure result (success false, empty lists) as a
\* value.
C10_Termination == []C10_Bounded /\ [][C10_Step]_vars

\* a constructive search that went through both of its loops and a returned
\* failure after the maximal number of tests
C10_Witness ==
    /\ stage = "done"
    /\ search.kind = "constructive"
    /\ result.returned /\ ~result.success
    /\ Len(tested) = MaxTests
    /\ Len(RankedToAdd.ranking) >= 1
    /\ Len(RankedWeakening.ranking) >= 1

\* the nodes of a list of branches
BranchNodes(bs) == Range(Flatten(bs))

\* C11: no node is placed both in an unweakened pro-branch and in an
\* unweakened con-branch of the target.
C11_PolarityExclusive ==
    BranchNodes(branches.unweakened_pro_branches)
        \cap BranchNodes(branches.unweakened_con_branches) = {}

\* a target with an unweakened pro-branch and an unweakened con-branch, one of
\* them of more than its root
C11_Witness ==
    /\ stage = "branches"
    /\ branches.unweakened_pro_branches # <<>>
    /\ branches.unweakened_con_branches # <<>>
    /\ Cardinality(BranchNodes(branches.unweakened_pro_branches)
                       \cup BranchNodes(branches.unweakened_con_branches)) >= 3

\* the sign of the path from n up to the target
PathSign(n) ==
    compute_path_sign_significant_only(initial_weight, edges, final_weight, n, t_id)

\* n is of the polarity: pro is a positive path sign, con a negative one
HasPolarity(n, polarity) == IF polarity = "pro" THEN PathSign(n) > 0 ELSE PathSign(n) < 0

\* the nodes of r's whole subtree
Subtree(r) == Range(traverse_full_branch(edges, r))

\* n lies in r's subtree and n, r and every node between them are of the polarity
RECURSIVE PurePath(_, _, _)
PurePath(n, r, polarity) ==
    /\ HasPolarity(n, polarity)
    /\ \/ n = r
       \/ /\ n \in DOMAIN edges
          /\ edges[n].relation # 0
          /\ PurePath(edges[n].successor_id, r, polarity)

\* the significant supporters (pro) or attackers (con) of the target, in edge order
SignificantRoots(polarity) ==
    SelectSeq(SortedSeq(DOMAIN edges),
              LAMBDA s : /\ edges[s].successor_id = t_id
                         /\ IF polarity = "pro" THEN edges[s].relation > 0
                            ELSE edges[s].relation < 0
                         /\ s \in DOMAIN final_weight
                         /\ final_weight[s] # Zero)

BranchesIdentified == stage \in {"branches", "ranked", "searching", "done"}

\* the statement of C12 as the specification words it: an unweakened branch
\* is reported for a root only if every node of the root's whole subtree is of
\* the branch's polarity
WholeSubtreePure(bs, polarity) ==
    \A k \in 1..Len(bs) : \A n \in Subtree(bs[k][1]) : HasPolarity(n, polarity)

PureReach(bs, polarity) ==
    LET roots == SelectSeq(SignificantRoots(polarity),
                           LAMBDA r : HasPolarity(r, polarity))
    IN  /\ Len(bs) = Len(roots)
        /\ \A k \in 1..Len(bs) :
              /\ bs[k][1] = roots[k]
              /\ Range(bs[k]) = {n \in DOMAIN initial_weight :
                                    PurePath(n, roots[k], polarity)}
              /\ Cardinality(Range(bs[k])) = Len(bs[k])

C13_TargetNotFound ==
    TargetMissing =>
        /\ direction = ""
        /\ tested = <<>>
        /\ stage = "done" => result # Failure

\* C14: a weight that is needed and missing is surfaced, never replaced by a
\* default: a direction is assigned to the target only when the target has
\* both its initial and its final weight.
C14_MissingWeightSurfaced ==
    direction # "" =>
        /\ t_id \in DOMAIN initial_weight
        /\ t_id \in DOMAIN final_weight

Categories ==
    {"pro_branches", "con_branches", "unweakened_pro_branches",
     "unweakened_con_branches", "pro_weakening_sub_branches",
     "con_weakening_sub_branches"}

\* branch x of bs is rightly placed before branch y by the heuristic: its key
\* is not on the wrong side, and with equal keys x was discovered first
RightOrder(bs, heuristic, x, y) ==
    LET kx == final_weight[bs[x][1]]
        ky == final_weight[bs[y][1]]
    IN  IF heuristic = "weak to strong" THEN RLe(kx, ky) /\ (kx = ky => x < y)
        ELSE IF heuristic = "strong to weak" THEN RLe(ky, kx) /\ (kx = ky => x < y)
        ELSE /\ Len(bs[x]) <= Len(bs[y])
             /\ Len(bs[x]) = Len(bs[y]) => x < y

\* r ranks the branch list bs by the heuristic
Ranks(r, bs, heuristic) ==
    LET n == Len(bs)
    IN  /\ \A k \in 1..n : bs[k] # <<>> /\ bs[k][1] \in DOMAIN final_weight
        /\ Len(r.ranking_abv) = n
        /\ Len(r.ranking) = n
        /\ Range(r.ranking_abv) = 1..n
        /\ \A k \in 1..n : r.ranking[k] = bs[r.ranking_abv[k]]
        /\ \A i, j \in 1..n :
              i < j => RightOrder(bs, heuristic, r.ranking_abv[i], r.ranking_abv[j])

\* C15: every branch list is ranked, by "weak to strong" in ascending order of
\* the root's final weight, by "strong to weak" in descending order of it, by
\* "small to large" in ascending order of the branch length; branches with
\* equal keys keep their discovery order in all three.
C15_RankingOrder ==
    stage \in {"ranked", "searching", "done"} =>
        /\ DOMAIN rankings = Heuristics
        /\ \A hr \in Heuristics : \A c \in Categories :
              Ranks(rankings[hr][c], branches[c], hr)

\* three pro-branches, the last two with equal root weights above the first:
\* "strong to weak" moves the first branch last and keeps the tied ones in
\* discovery order, the other two heuristics keep the discovery order
C15_Witness ==
    /\ stage = "ranked"
    /\ Len(branches.pro_branches) = 3
    /\ rankings["strong to weak"].pro_branches.ranking_abv = <<2, 3, 1>>
    /\ rankings["weak to strong"].pro_branches.ranking_abv = <<1, 2, 3>>
    /\ rankings["small to large"].pro_branches.ranking_abv = <<1, 2, 3>>

\* the debate is the chain a -(support)-> b -(support)-> target with initial
\* weights 0.5, and nothing else related to anything
IsChain(a, b) ==
    /\ a # b /\ a # t_id /\ b # t_id
    /\ DOMAIN edges = {a, b}
    /\ edges[a] = [successor_id |-> b, relation |-> 1]
    /\ edges[b] = [successor_id |-> t_id, relation |-> 1]
    /\ \A n \in {a, b, t_id} : initial_weight[n] = Half

\* x rounds to 0.6596 at four decimals
About6596(x) == RLe(<<65955, 100000>>, x) /\ RLt(x, <<65965, 100000>>)

\* x rounds to 0.6324 at four decimals
About6324(x) == RLe(<<63235, 100000>>, x) /\ RLt(x, <<63245, 100000>>)

\* the statement of C16 as the specification words it: on the chain,
\* final(A) = 0.5, final(B) = 0.6, final(target) is about 0.6596, and the
\* direction is strengthening
C16_ChainValues ==
    \A a, b \in DOMAIN initial_weight :
        (IsChain(a, b) /\ stage # "loaded") =>
            /\ final_weight[a] = Half
            /\ final_weight[b] = <<3, 5>>
            /\ About6596(final_weight[t_id])
            /\ direction \in {"", "strengthening"}

\* C16 (amended): on the chain, final(A) = 0.5, final(B) = 0.5 + 0.5 h(0.5)
\* = 0.6, and final(target) = 0.5 + 0.5 h(0.6) = 43/68, about 0.6324; the
\* direction is strengthening.
C16_ChainExact ==
    \A a, b \in DOMAIN initial_weight :
        (IsChain(a, b) /\ stage # "loaded") =>
            /\ stage # "skipped"
            /\ final_weight[a] = Half
            /\ final_weight[b] = <<3, 5>>
            /\ final_weight[t_id] = <<43, 68>>
            /\ About6324(final_weight[t_id])
            /\ direction \in {"", "strengthening"}
            /\ stage \in {"ranked", "searching", "done"} => direction = "strengthening"

\* the chain, propagated and given its direction
C16_Witness ==
    /\ \E a, b \in DOMAIN initial_weight : IsChain(a, b)
    /\ stage = "ranked"
    /\ direction = "strengthening"
    /\ final_weight[t_id] # initial_weight[t_id]

\* the votes of v all fall in bucket k
AllIn(v, k) == Get(v, k, 0) > 0 /\ \A i \in Buckets \ {k} : Get(v, i, 0) = 0

\* C17: the initial weight computed from the votes is exactly 0.5 when the
\* total vote count is zero, and k/4 when all votes fall in the one bucket k
\* of 0..4 (1.0 for bucket 4).
C17_AggregateVotes ==
    \A n \in DOMAIN votes \cap DOMAIN initial_weight :
        /\ (\A i \in Buckets : Get(votes[n], i, 0) = 0) => initial_weight[n] = <<1, 2>>
        /\ AllIn(votes[n], 0) => initial_weight[n] = <<0, 1>>
        /\ AllIn(votes[n], 1) => initial_weight[n] = <<1, 4>>
        /\ AllIn(votes[n], 2) => initial_weight[n] = <<1, 2>>
        /\ AllIn(votes[n], 3) => initial_weight[n] = <<3, 4>>
        /\ AllIn(votes[n], 4) => initial_weight[n] = <<1, 1>>

\* an argument whose votes, more than one, all fall in bucket 3 while other
\* buckets are listed with a count of zero, and its computed weight
C17_Witness ==
    /\ stage = "loaded"
    /\ 1 \in DOMAIN votes
    /\ AllIn(votes[1], 3)
    /\ votes[1][3] > 1
    /\ DOMAIN votes[1] # {3}
    /\ initial_weight[1] = <<3, 4>>

\* the energies of the arguments under the final weights just computed, and
\* their negations: the values on which the acceptance function evaluates h
\* (the later stages change neither the edges nor the final weights)
HInputs ==
    IF stage # "enriched" THEN {}
    ELSE LET E == {calculate_energy(n, edges, final_weight) : n \in DOMAIN final_weight}
         IN  E \cup {RNeg(e) : e \in E}

\* a/b <= c/d for b, d > 0, by integer parts and the reciprocals of the
\* fractional parts, so that no product is formed
RECURSIVE FracLe(_, _, _, _)
FracLe(a, b, c, d) ==
    IF a \div b # c \div d THEN a \div b < c \div d
    ELSE IF a % b = 0 THEN TRUE
    ELSE IF c % d = 0 THEN FALSE
    ELSE FracLe(d, c % d, b, a % b)

LeExact(x, y) == FracLe(x[1], x[2], y[1], y[2])

WeakPrefixArgs(j) == Flatten(SubSeq(RankedWeakening.ranking, 1, j))
FallbackList(j) ==
    OpposingUnweakened \o PrefixArgs(Len(RankedToAdd.ranking)) \o WeakPrefixArgs(j)
        \o <<t_id>>

\* C19: in a constructive search, con-weakening branches (pro-weakening for a
\* weakening target) are added only after every ranked pro-branch (con-branch)
\* has been added and tested without success; every restriction tested in
\* this fallback stage contains the base, all the ranked branches and the
\* target, and adds the next weakening branch in ranked order; a success in
\* this stage reports the full ranking as its second stage and the shortest
\* successful prefix of the weakening ranking as its third.
C19_ConstructiveFallback ==
    (search.kind = "constructive" /\ direction \in {"strengthening", "weakening"}) =>
        LET n == Len(RankedToAdd.ranking)
            m == Len(RankedWeakening.ranking)
        IN  /\ search.weak_abv # <<>> =>
                  /\ search.added_abv = RankedToAdd.ranking_abv
                  /\ Len(tested) = n + 1 + Len(search.weak_abv)
            /\ \A k \in (n + 2)..Len(tested) :
                  /\ \A i \in 0..n : tested[i + 1] = ConstructiveList(i)
                  /\ \A i \in 1..(k - 1) : ~Moved(tested[i])
                  /\ k - n - 1 <= m
                  /\ tested[k] = FallbackList(k - n - 1)
                  /\ Range(OpposingUnweakened) \cup Range(PrefixArgs(n)) \cup {t_id}
                         \subseteq Range(tested[k])
            /\ (stage = "done" /\ result.success /\ Len(result.abv) = 3) =>
                  LET j == Len(result.abv[3])
                  IN  /\ j \in 1..m
                      /\ result.abv[1] = Abv(UnweakenedBase)
                      /\ result.arg[1] = OpposingUnweakened
                      /\ result.abv[2] = RankedToAdd.ranking_abv
                      /\ result.arg[2] = PrefixArgs(n)
                      /\ result.abv[3] = SubSeq(RankedWeakening.ranking_abv, 1, j)
                      /\ result.arg[3] = WeakPrefixArgs(j)
                      /\ Moved(FallbackList(j))
                      /\ \A i \in 0..(j - 1) : ~Moved(FallbackList(i))

\* a search that failed on the base and on its ranked branch and succeeded
\* once a weakening branch was added
C19_Witness ==
    /\ stage = "done"
    /\ search.kind = "constructive"
    /\ result.success
    /\ Len(result.abv) = 3
    /\ result.abv[2] # <<>>
    /\ result.abv[3] # <<>>
    /\ Len(tested) >= 3

\* along order, every supporter and attacker of a node stands before the node
RelativesFirst(order, E) ==
    \A i \in 1..Len(order) :
        \A s \in Supporters(E, order[i]) \cup Attackers(E, order[i]) :
            \E j \in 1..(i - 1) : order[j] = s

\* C20: in every propagation call, when the final weight of a node n is
\* computed, every supporter and every attacker of n already has its final
\* weight, so none is counted with the placeholder weight 0: on the full
\* debate, and on every restriction whose weights are computed node by node.
C20_RelativesFirst ==
    /\ stage = "enriched" => RelativesFirst(topological_sort(edges).order, edges)
    /\ (search.kind = "direct" /\ CurrentRestriction.nodes # <<>>
            /\ DOMAIN CurrentRestriction.edges # {}) =>
           RelativesFirst(restriction_topo(CurrentRestriction), CurrentRestriction.edges)

\* the same on the restrictions whose edges hold no cycle
C20_AcyclicRelativesFirst ==
    (search.kind = "direct" /\ topological_sort(CurrentRestriction.edges).ok) =>
        RelativesFirst(restriction_topo(CurrentRestriction), CurrentRestriction.edges)

\* r is reached from n along edges, of any relation
RECURSIVE Reaches(_, _)
Reaches(n, r) ==
    \/ n = r
    \/ n \in DOMAIN edges /\ Reaches(edges[n].successor_id, r)

\* r is reached from n along edges of a relation other than 0
RECURSIVE ReachesNonNeutral(_, _)
ReachesNonNeutral(n, r) ==
    \/ n = r
    \/ /\ n \in DOMAIN edges
       /\ edges[n].relation # 0
       /\ ReachesNonNeutral(edges[n].successor_id, r)

\* bs holds one branch per significant root of the polarity, in the order of
\* the roots, each starting with its root and holding the nodes of Below(root)
WholeTree(bs, polarity, Below) ==
    LET roots == SignificantRoots(polarity)
    IN  /\ Len(bs) = Len(roots)
        /\ \A k \in 1..Len(bs) :
              /\ bs[k][1] = roots[k]
              /\ Range(bs[k]) = Below[roots[k]]

\* the statement of C21 as the claim words it: the full branch of a
\* significant immediate supporter or attacker r lists r first and holds
\* every node from which r is reached along edges
C21_WholeSubtree ==
    BranchesIdentified =>
        LET Below == [r \in DOMAIN initial_weight |->
                         {n \in DOMAIN initial_weight : Reaches(n, r)}]
        IN  /\ WholeTree(branches.pro_branches, "pro", Below)
            /\ WholeTree(branches.con_branches, "con", Below)

\* C21 (amended): the full branch rooted at a significant immediate supporter
\* or attacker r of the target lists r first and contains, each once, exactly
\* the nodes from which r is reached along edges of a relation other than 0,
\* whatever the significance of these nodes; a node joined to r only through
\* an edge of relation 0 is left out, with the nodes below it.
C21_NonNeutralSubtree ==
    BranchesIdentified =>
        LET Below == [r \in DOMAIN initial_weight |->
                         {n \in DOMAIN initial_weight : ReachesNonNeutral(n, r)}]
        IN  /\ WholeTree(branches.pro_branches, "pro", Below)
            /\ WholeTree(branches.con_branches, "con", Below)
            /\ \A k \in 1..Len(branches.pro_branches) :
                  Cardinality(Range(branches.pro_branches[k])) = Len(branches.pro_branches[k])
            /\ \A k \in 1..Len(branches.con_branches) :
                  Cardinality(Range(branches.con_branches[k])) = Len(branches.con_branches[k])

\* a full branch that holds an insignificant node below its root while a node
\* related to the root with relation 0 is left out
C21_Witness ==
    /\ stage = "branches"
    /\ \E k \in 1..Len(branches.pro_branches) :
          LET b == branches.pro_branches[k]
          IN  /\ \E n \in Range(b) :
                    /\ ~is_significant(final_weight, n)
                    /\ n # b[1]
              /\ \E n \in DOMAIN edges :
                    /\ edges[n].successor_id = b[1]
                    /\ edges[n].relation = 0
                    /\ n \notin Range(b)

\* the significant nodes that attack a node of the branches unweakened, in
\* the order of the edges
SignificantAttackersOf(unweakened) ==
    SelectSeq(SortedSeq(DOMAIN edges),
              LAMBDA s : /\ edges[s].relation < 0
                         /\ edges[s].successor_id \in BranchNodes(unweakened)
                         /\ s \in DOMAIN initial_weight
                         /\ Get(final_weight, s, Zero) # Zero)

\* weakening holds one branch per significant attacker of the branches
\* unweakened, and it is the attacker's full branch: the attacker first, then
\* the nodes that reach it along edges of a relation other than 0, each once
OnePerAttacker(weakening, unweakened) ==
    LET att == SignificantAttackersOf(unweakened)
    IN  /\ Len(weakening) = Len(att)
        /\ \A k \in 1..Len(att) :
              /\ weakening[k][1] = att[k]
              /\ Range(weakening[k]) =
                     {n \in DOMAIN initial_weight : ReachesNonNeutral(n, att[k])}
              /\ Cardinality(Range(weakening[k])) = Len(weakening[k])

\* C22: the pro-weakening (con-weakening) list contains exactly one branch for
\* each significant node that attacks (relation < 0) a member of some
\* unweakened pro-branch (con-branch), and that branch is the full branch
\* rooted at the attacking node.
C22_WeakeningPerAttacker ==
    BranchesIdentified =>
        /\ OnePerAttacker(branches.pro_weakening_sub_branches,
                          branches.unweakened_pro_branches)
        /\ OnePerAttacker(branches.con_weakening_sub_branches,
                          branches.unweakened_con_branches)

\* an unweakened pro-branch with a significant attacker, which has its
\* weakening branch, and with an insignificant attacker, which has none
C22_Witness ==
    /\ stage = "branches"
    /\ branches.pro_weakening_sub_branches # <<>>
    /\ \E s \in DOMAIN edges :
          /\ edges[s].relation < 0
          /\ edges[s].successor_id \in BranchNodes(branches.unweakened_pro_branches)
          /\ ~is_significant(final_weight, s)
          /\ \A k \in 1..Len(branches.pro_weakening_sub_branches) :
                branches.pro_weakening_sub_branches[k][1] # s

\* C23: create_restriction returns exactly the nodes of the debate that the
\* requested subset names, each once, and exactly the edges of the debate whose
\* source and successor both lie in the subset, unchanged; so every edge of a
\* restriction has both endpoints among the restriction's nodes, also when the
\* subset names an id that the debate does not contain.
C23_Restriction ==
    search.kind = "direct" =>
        LET R == CurrentRestriction
            subset == Range(current_args)
        IN  /\ Range(R.nodes) = subset \cap DOMAIN initial_weight
            /\ Cardinality(Range(R.nodes)) = Len(R.nodes)
            /\ DOMAIN R.edges = {s \in DOMAIN edges :
                                    s \in subset /\ edges[s].successor_id \in subset}
            /\ \A s \in DOMAIN R.edges :
                  /\ R.edges[s] = edges[s]
                  /\ s \in Range(R.nodes)
                  /\ R.edges[s].successor_id \in Range(R.nodes)

\* a restriction to a subset that names the id outside the debate, keeps one
\* edge of the debate and drops another whose source it names
C23_Witness ==
    /\ search.kind = "direct"
    /\ NoNode \in Range(current_args)
    /\ DOMAIN CurrentRestriction.edges # {}
    /\ \E s \in DOMAIN edges \cap Range(current_args) : s \notin DOMAIN CurrentRestriction.edges

\* a step other than the computation of the final weights keeps the node and
\* edge maps and the final weights; a step after branch extraction keeps the
\* branch lists, a step after ranking keeps the rankings
C24_Step ==
    /\ initial_weight' = initial_weight
    /\ edges' = edges
    /\ stage # "loaded" => final_weight' = final_weight
    /\ stage \in {"branches", "ranked", "searching", "done"} => branches' = branches
    /\ stage \in {"ranked", "searching", "done"} => rankings' = rankings

\* C24: restriction building, propagation on a restriction, branch extraction,
\* ranking and both searches leave the debate's node and edge maps (every
\* node's initial and final weight, every edge) and the branch and ranking
\* lists they are given unchanged, along every sequence of calls.
C24_InputsUnchanged == [][C24_Step]_vars

\* a destructive search ended after more than one restriction, on rankings
\* that reorder the branches
C24_Witness ==
    /\ stage = "done"
    /\ search.kind = "destructive"
    /\ Len(tested) >= 2
    /\ \E c \in DOMAIN branches :
          rankings["strong to weak"][c].ranking # branches[c]

\* C25: on an acyclic debate whose target is strengthening or weakening, the
\* constructive and the destructive search return success under every
\* heuristic; the failure result is never returned.
C25_AlwaysSuccess ==
    (stage = "done" /\ direction \in {"strengthening", "weakening"}) => result.success

\* the base a search starts from, with the target
BaseList == IF search.kind = "constructive" THEN ConstructiveList(0) ELSE DestructiveList(0)

\* the target's final weight under the restriction to args
TargetUnder(args) == Get(RestrictedWeights(args), t_id, initial_weight[t_id])

\* C26: the base-only test never succeeds: for a strengthening target the
\* restriction to the base (the unweakened con-branches, with the con-weakening
\* branches in the destructive search) and the target gives the target a final
\* weight not above its initial weight, for a weakening target the symmetric
\* base gives one not below it; so every successful explanation adds at least
\* one branch.
C26_BaseNeverSucceeds ==
    (search.kind \in {"constructive", "destructive"}
        /\ direction \in {"strengthening", "weakening"}) =>
        /\ tested[1] = BaseList
        /\ IF direction = "strengthening"
           THEN RLe(TargetUnder(BaseList), initial_weight[t_id])
           ELSE RLe(initial_weight[t_id], TargetUnder(BaseList))
        /\ (stage = "done" /\ result.success) =>
              /\ Len(tested) >= 2
              /\ search.kind = "constructive" => result.abv[2] # <<>>
              /\ search.kind = "destructive" => result.abv[3] # <<>>

\* a successful strengthening search whose base, the unweakened con-branches,
\* put the target strictly below its initial weight
C26_Witness ==
    /\ stage = "done"
    /\ result.success
    /\ direction = "strengthening"
    /\ OpposingUnweakened # <<>>
    /\ RLt(TargetUnder(BaseList), initial_weight[t_id])
    /\ Len(tested) >= 2

\* C27: during a strengthening search the set of nodes tested grows (each
\* tested restriction holds the nodes of the one before) and the target's
\* final weight under the restriction never decreases from one test to the
\* next; during a weakening search it never increases.
C27_MonotoneTests ==
    (search.kind \in {"constructive", "destructive"}
        /\ direction \in {"strengthening", "weakening"}) =>
        \A k \in 2..Len(tested) :
            /\ Range(tested[k - 1]) \subseteq Range(tested[k])
            /\ IF direction = "strengthening"
               THEN LeExact(TargetUnder(tested[k - 1]), TargetUnder(tested[k]))
               ELSE LeExact(TargetUnder(tested[k]), TargetUnder(tested[k - 1]))

\* a strengthening search of three tests, each with more nodes and a strictly
\* higher weight of the target than the one before
C27_Witness ==
    /\ search.kind \in {"constructive", "destructive"}
    /\ direction = "strengthening"
    /\ Len(tested) >= 3
    /\ \A k \in 2..3 :
          /\ Range(tested[k - 1]) # Range(tested[k])
          /\ ~LeExact(TargetUnder(tested[k]), TargetUnder(tested[k - 1]))

\* the restriction of the constructive (destructive) search with the first j
\* ranked branches moves the target; C8 and C9 show that a successful search
\* reports the least such j, and C19 that the constructive search reports every
\* ranked branch when no j moves the target from its base
ConstructiveMoves(j) == Moved(ConstructiveList(j))
DestructiveMoves(j) == Moved(DestructiveList(j))

\* C28: for the same debate, target, direction and heuristic, the number of
\* pro-branches (con-branches for a weakening target) reported by a successful
\* destructive search is never greater than the number reported by a
\* successful constructive search: with fewer branches than a successful
\* destructive search reports, the constructive restriction does not move the
\* target; and when the destructive search can succeed at all, it succeeds
\* with no more branches than a successful constructive search reports.
C28_DestructiveNoMore ==
    (stage = "done" /\ result.success /\ direction \in {"strengthening", "weakening"}) =>
        LET n == Len(RankedToAdd.ranking)
        IN  IF search.kind = "destructive"
            THEN /\ Len(result.abv[3]) <= n
                 /\ \A j \in 0..(Len(result.abv[3]) - 1) : ~ConstructiveMoves(j)
            ELSE (\E j \in 0..n : DestructiveMoves(j)) =>
                     \E j \in 0..Len(result.abv[2]) : DestructiveMoves(j)

\* a constructive search that needed its ranked branch and a weakening branch,
\* on a debate where the destructive search succeeds with the ranked branch
C28_Witness ==
    /\ stage = "done"
    /\ search.kind = "constructive"
    /\ result.success
    /\ Len(result.abv) = 3
    /\ ~DestructiveMoves(0)
    /\ \E j \in 1..Len(result.abv[2]) : DestructiveMoves(j)

\* every branch of unweakened lies within the branch of full with the same
\* root; every branch of weakening lies within some branch of full and shares
\* no node with a branch of unweakened
Nested(unweakened, weakening, full) ==
    /\ \A k \in 1..Len(unweakened) :
          \E j \in 1..Len(full) :
              /\ full[j][1] = unweakened[k][1]
              /\ Range(unweakened[k]) \subseteq Range(full[j])
    /\ \A k \in 1..Len(weakening) :
          /\ \E j \in 1..Len(full) : Range(weakening[k]) \subseteq Range(full[j])
          /\ Range(weakening[k]) \cap BranchNodes(unweakened) = {}

\* C29: each unweakened pro-branch is a subset of the pro-branch with the same
\* root, and each pro-weakening branch is a subset of some pro-branch and
\* shares no node with any unweakened pro-branch; the same for con.
C29_Nested ==
    BranchesIdentified =>
        /\ Nested(branches.unweakened_pro_branches, branches.pro_weakening_sub_branches,
                  branches.pro_branches)
        /\ Nested(branches.unweakened_con_branches, branches.con_weakening_sub_branches,
                  branches.con_branches)

\* a pro-branch that holds more than its unweakened branch, and a
\* pro-weakening branch of two nodes
C29_Witness ==
    /\ stage = "branches"
    /\ \E k \in 1..Len(branches.unweakened_pro_branches) :
          \E j \in 1..Len(branches.pro_branches) :
              /\ branches.pro_branches[j][1] = branches.unweakened_pro_branches[k][1]
              /\ Len(branches.pro_branches[j]) > Len(branches.unweakened_pro_branches[k])
    /\ \E k \in 1..Len(branches.pro_weakening_sub_branches) :
          Len(branches.pro_weakening_sub_branches[k]) = 2

\* the branches of all six categories, and the pro- and con-branches
AllBranches ==
    branches.pro_branches \o branches.con_branches
        \o branches.unweakened_pro_branches \o branches.unweakened_con_branches
        \o branches.pro_weakening_sub_branches \o branches.con_weakening_sub_branches
FullBranchList == branches.pro_branches \o branches.con_branches

\* C30: the target appears in no branch of any of the six categories, the
\* first element of every branch is a significant node, and two distinct
\* branches among the pro-branches and con-branches share no node.
C30_WellFormed ==
    BranchesIdentified =>
        /\ \A k \in 1..Len(AllBranches) :
              /\ t_id \notin Range(AllBranches[k])
              /\ AllBranches[k] # <<>>
              /\ AllBranches[k][1] \in DOMAIN final_weight
              /\ final_weight[AllBranches[k][1]] # Zero
        /\ \A j, k \in 1..Len(FullBranchList) :
              j # k => Range(FullBranchList[j]) \cap Range(FullBranchList[k]) = {}

\* a target below the root of the tree, with a pro-branch, a con-branch and
\* their unweakened branches
C30_Witness ==
    /\ stage = "branches"
    /\ t_id = 2
    /\ branches.pro_branches # <<>>
    /\ branches.con_branches # <<>>
    /\ Len(AllBranches) >= 4

====
